---------------------------- MODULE Spec2Model ----------------------------
(***************************************************************************)
(* State-machine model of the changepoint interpretation and rendering     *)
(* engine of orion: orion/report.py (changepoint extractor, label          *)
(* extractor, PR correlator, report renderer) and the regression           *)
(* classifier of orion/visualization.py.                                   *)
(*                                                                         *)
(* Python dicts are functions whose DOMAIN is the set of keys present, so  *)
(* an optional field is a key that may be missing; Python strings are      *)
(* TLA+ strings, taken apart character by character with Len and SubSeq.   *)
(* Python lists are sequences; position i of the code (0-based) is         *)
(* position i + 1 here.                                                    *)
(***************************************************************************)
EXTENDS Integers, Sequences, FiniteSets, TLC

VARIABLES
    pc,                       \* which function is running, and where it is
    data,                     \* extract_changepoints: the Run sequence
    changepoints,             \* extract_changepoints: the returned list
    json_data_by_workload,    \* generate_report: workload -> Run sequence
    queue,                    \* generate_report: sorted workloads still to visit
    classification,           \* generate_report: heading printed per workload
    regression_count,
    pass_count,
    skip_count,
    total,                    \* generate_report: total of the summary line
    returned,                 \* generate_report: the return value
    metrics_config,           \* VizData.metrics_config
    change_points_by_metric,  \* VizData.change_points_by_metric
    panel_markers,            \* _build_test_figure: markers drawn per panel
    title_tokens,             \* _build_test_figure: summary tokens of the title
    prs,                      \* _sort_prs_by_relevance: the reference URLs
    components,               \* component tokens (output of _extract_components)
    matching,                 \* _sort_prs_by_relevance: "related" list
    others,                   \* _sort_prs_by_relevance: "other" list
    regressed_metrics,        \* _extract_components: its argument
    file_paths,               \* load_json_files: its argument
    files,                    \* load_json_files: the files behind the paths
    loaded,                   \* load_json_files: the dict "data" being built
    next_path                 \* load_json_files: position of the loop in file_paths

extractVars == <<data, changepoints>>
reportVars == <<json_data_by_workload, queue, classification, regression_count,
                pass_count, skip_count, total, returned>>
vizVars == <<metrics_config, change_points_by_metric, panel_markers, title_tokens>>
prVars == <<prs, matching, others>>
labelVars == <<regressed_metrics>>
loadVars == <<file_paths, files, loaded, next_path>>
vars == <<pc, extractVars, reportVars, vizVars, prVars, labelVars, loadVars,
          components>>

---------------------------------------------------------------------------
(* Bounds of the checked instances *)

MaxRuns == 2

MaxWorkloads == 3

MaxReportRuns == 1

MaxCps == 1

VizRuns == 1

MaxPrs == 3

MaxSegs == 4

MaxLabelled == 3

MaxPaths == 2

---------------------------------------------------------------------------
(* Python built-ins *)

\* dict.get(k, default)
Get(d, k, default) == IF k \in DOMAIN d THEN d[k] ELSE default

\* a dict made of the keys of both (the key sets used here are disjoint)
Merge(f, g) == [k \in (DOMAIN f) \cup (DOMAIN g) |->
                  IF k \in DOMAIN f THEN f[k] ELSE g[k]]

\* the sequences over S of length at most n
SeqUpTo(S, n) == UNION {[1..k -> S] : k \in 0..n}

\* character i of a string, as a one-character string
Char(s, i) == SubSeq(s, i, i)

\* "a or b" on strings: the empty string is falsy
StrOr(a, b) == IF a # "" THEN a ELSE b


---------------------------------------------------------------------------
(* orion/report.py: extract_changepoints *)

\* a mutant of Regressed: only increases are kept
RegressedIncreasesOnly(entry) ==
    LET metrics == Get(entry, "metrics", <<>>)
    IN  [name \in {n \in DOMAIN metrics :
                     Get(metrics[n], "percentage_change", 0) > 0}
           |-> metrics[name]]

\* the dict comprehension "regressed": the metrics whose change is not 0
Regressed(entry) ==
    LET metrics == Get(entry, "metrics", <<>>)
    IN  [name \in {n \in DOMAIN metrics :
                     Get(metrics[n], "percentage_change", 0) # 0}
           |-> metrics[name]]

\* a mutant of Emits: the "if not regressed: continue" is missing
EmitsFlagOnly(entry) == Get(entry, "is_changepoint", FALSE)

\* the two "continue" guards of the loop body, negated
Emits(entry) ==
    /\ Get(entry, "is_changepoint", FALSE)
    /\ DOMAIN Regressed(entry) # {}

CurrentVersion(entry) ==
    LET github_ctx == Get(entry, "github_context", <<>>)
    IN  StrOr(Get(github_ctx, "current_version", ""),
              Get(entry, "ocpVersion", "unknown"))

\* a mutant of PreviousVersion: the fallback reads the Run itself, not the
\* one before it
PreviousVersionOwn(d, p) ==
    LET github_ctx == Get(d[p], "github_context", <<>>)
        previous_version == Get(github_ctx, "previous_version", "")
    IN  IF previous_version = "" /\ p > 1
        THEN Get(d[p], "ocpVersion", "unknown")
        ELSE previous_version

\* previous_version of the entry at position p (the code's i is p - 1)
PreviousVersion(d, p) ==
    LET github_ctx == Get(d[p], "github_context", <<>>)
        previous_version == Get(github_ctx, "previous_version", "")
    IN  IF previous_version = "" /\ p > 1
        THEN Get(d[p - 1], "ocpVersion", "unknown")
        ELSE previous_version

\* the dict appended to changepoints
Changepoint(d, p) ==
    [current_version   |-> CurrentVersion(d[p]),
     previous_version  |-> PreviousVersion(d, p),
     build_url         |-> Get(d[p], "buildUrl", ""),
     prs               |-> Get(d[p], "prs", <<>>),
     regressed_metrics |-> Regressed(d[p])]

\* the for loop from position p on, acc being the list built so far
RECURSIVE ExtractLoop(_, _, _)
ExtractLoop(d, p, acc) ==
    IF p > Len(d)
    THEN acc
    ELSE ExtractLoop(d, p + 1,
                     IF Emits(d[p]) THEN Append(acc, Changepoint(d, p)) ELSE acc)

extract_changepoints(d) == ExtractLoop(d, 1, <<>>)

---------------------------------------------------------------------------
(* The Runs the extractor is checked on *)

MetricNames == {"cpu", "lat"}

FlagOptions == {<<>>, [is_changepoint |-> FALSE], [is_changepoint |-> TRUE]}

SampleChoices ==
    {[value |-> 1],
     [value |-> 1, percentage_change |-> 0],
     [value |-> 1, percentage_change |-> 5]}

MetricsOptions ==
    {<<>>} \cup
    {[metrics |-> m] : m \in UNION {[N -> SampleChoices] : N \in SUBSET MetricNames}}

ContextOptions ==
    {<<>>,
     [github_context |-> <<>>],
     [github_context |-> [previous_version |-> ""]],
     [github_context |-> [previous_version |-> "4.16", current_version |-> "4.17"]]}

VersionOptions == {<<>>, [ocpVersion |-> "4.15"]}

\* Runs that differ in their flag and their metrics
RunsByMetrics == {Merge(f, m) : f \in FlagOptions, m \in MetricsOptions}

\* Runs that differ in their version metadata
RunsByVersion ==
    {Merge(Merge(Merge(f, [metrics |-> [cpu |-> [value |-> 1,
                                                 percentage_change |-> -5]]]),
                 c), v) :
        f \in FlagOptions \ {<<>>}, c \in ContextOptions, v \in VersionOptions}

Runs == RunsByMetrics \cup RunsByVersion

\* every Run of a sequence carries the URL of its own build
BuildUrlAt(p) == "https://ci/build/" \o ToString(p)

RunSequences ==
    {[p \in DOMAIN s |-> Merge(s[p], [buildUrl |-> BuildUrlAt(p)])] :
        s \in SeqUpTo(Runs, MaxRuns)}

---------------------------------------------------------------------------
(* Values of the variables a specification does not use *)

ExtractIdle == data = <<>> /\ changepoints = <<>>

ReportIdle ==
    /\ json_data_by_workload = <<>>
    /\ queue = <<>>
    /\ classification = <<>>
    /\ regression_count = 0
    /\ pass_count = 0
    /\ skip_count = 0
    /\ total = 0
    /\ returned = FALSE

VizIdle ==
    /\ metrics_config = <<>>
    /\ change_points_by_metric = <<>>
    /\ panel_markers = <<>>
    /\ title_tokens = <<>>

PrIdle == prs = <<>> /\ matching = <<>> /\ others = <<>>

LabelIdle == regressed_metrics = <<>>

LoadIdle ==
    /\ file_paths = <<>>
    /\ files = <<>>
    /\ loaded = <<>>
    /\ next_path = 1

---------------------------------------------------------------------------
(* SpecExtract: extract_changepoints applied to a Run sequence *)

InitExtract ==
    /\ pc = "extract"
    /\ data \in RunSequences
    /\ changepoints = <<>>
    /\ LoadIdle /\ ReportIdle /\ VizIdle /\ PrIdle /\ LabelIdle
    /\ components = {}

ExtractChangepoints ==
    /\ pc = "extract"
    /\ changepoints' = extract_changepoints(data)
    /\ pc' = "done"
    /\ UNCHANGED <<data, loadVars, reportVars, vizVars, prVars, labelVars, components>>

NextExtract == ExtractChangepoints

SpecExtract == InitExtract /\ [][NextExtract]_vars

\* the claims' reading of a Run: flagged, and some metric changed
Qualifies(run) ==
    /\ "is_changepoint" \in DOMAIN run
    /\ run.is_changepoint
    /\ "metrics" \in DOMAIN run
    /\ \E n \in DOMAIN run.metrics :
          /\ "percentage_change" \in DOMAIN run.metrics[n]
          /\ run.metrics[n].percentage_change # 0

QualifyingPositions == {p \in 1..Len(data) : Qualifies(data[p])}

\* the k-th qualifying position, in sequence order
KthQualifying(k) ==
    CHOOSE p \in QualifyingPositions :
        Cardinality({q \in QualifyingPositions : q <= p}) = k

\* C1: extract_changepoints returns exactly one Changepoint per Run that is
\* flagged and has a metric with a non-zero change, none for any other Run,
\* in the order of the Runs.
C1_OnePerQualifyingRunInOrder ==
    pc = "done" =>
        /\ Len(changepoints) = Cardinality(QualifyingPositions)
        /\ \A k \in 1..Len(changepoints) :
              changepoints[k].build_url = data[KthQualifying(k)].buildUrl

\* a flagged Run whose changes are all zero or missing is passed over and
\* the qualifying Run after it is emitted
C1_Witness ==
    /\ pc = "done"
    /\ Len(data) = 2
    /\ Get(data[1], "is_changepoint", FALSE)
    /\ DOMAIN Get(data[1], "metrics", <<>>) = MetricNames
    /\ ~Qualifies(data[1])
    /\ Qualifies(data[2])
    /\ Len(changepoints) = 1
    /\ changepoints[1].build_url = BuildUrlAt(2)

\* what the claim says previous_version is, for the Run at position p
ClaimedPreviousVersion(p) ==
    LET run == data[p]
        fromContext ==
            IF /\ "github_context" \in DOMAIN run
               /\ "previous_version" \in DOMAIN run.github_context
            THEN run.github_context.previous_version
            ELSE ""
    IN  CASE fromContext # "" -> fromContext
          [] fromContext = "" /\ p > 1 /\ "ocpVersion" \in DOMAIN data[p - 1] ->
                data[p - 1].ocpVersion
          [] fromContext = "" /\ p > 1 /\ "ocpVersion" \notin DOMAIN data[p - 1] ->
                "unknown"
          [] OTHER -> ""

\* C5: previous_version of a Changepoint is github_context.previous_version
\* when non-empty; otherwise the ocpVersion of the Run just before it
\* ("unknown" if it has none), whether or not that Run is a changepoint;
\* otherwise, for the first Run, the empty string.
C5_PreviousVersionResolution ==
    pc = "done" =>
        \A k \in 1..Len(changepoints) :
            changepoints[k].previous_version =
                ClaimedPreviousVersion(KthQualifying(k))

\* the second Run has no previous version of its own and takes the
\* ocpVersion of the first, which is not a changepoint
C5_Witness ==
    /\ pc = "done"
    /\ Len(data) = 2
    /\ ~Qualifies(data[1])
    /\ "ocpVersion" \in DOMAIN data[1]
    /\ "ocpVersion" \notin DOMAIN data[2]
    /\ Get(Get(data[2], "github_context", <<>>), "previous_version", "") = ""
    /\ Len(changepoints) = 1
    /\ changepoints[1].previous_version = "4.15"

---------------------------------------------------------------------------
(* orion/report.py: generate_report *)

SKIP == "SKIP (no data)"

PASS == "PASS (no changepoints)"

REGRESSION == "REGRESSION DETECTED"

\* a mutant of Classify: the "if not data" branch is missing
ClassifyNoSkip(d) ==
    IF extract_changepoints(d) = <<>> THEN PASS ELSE REGRESSION

\* the heading the loop body prints for a workload whose Run sequence is d
Classify(d) ==
    IF d = <<>>
    THEN SKIP
    ELSE IF extract_changepoints(d) = <<>> THEN PASS ELSE REGRESSION

\* a mutant of SkipCountAfter: an empty workload is not counted
SkipCountForgotten(count, heading) == count

\* skip_count after one loop iteration that printed heading
SkipCountAfter(count, heading) ==
    IF heading = SKIP THEN count + 1 ELSE count

\* pass_count after one loop iteration that printed heading
PassCountAfter(count, heading) ==
    IF heading = PASS THEN count + 1 ELSE count

\* regression_count after one loop iteration that printed heading
RegressionCountAfter(count, heading) ==
    IF heading = REGRESSION THEN count + 1 ELSE count

\* a mutant of ReturnValue: an off-by-one comparison
ReturnValueOffByOne(count) == count > 1

\* the value of "return regression_count > 0"
ReturnValue(count) == count > 0

\* sorted(...): workloads are represented by the rank of their name
RECURSIVE Sorted(_)
Sorted(S) ==
    IF S = {}
    THEN <<>>
    ELSE LET least == CHOOSE x \in S : \A y \in S : x <= y
         IN  <<least>> \o Sorted(S \ {least})

\* the Runs and Run sequences the report is checked on
ReportRuns ==
    {[is_changepoint |-> FALSE,
      metrics |-> [cpu |-> [value |-> 1, percentage_change |-> 5]]],
     [is_changepoint |-> TRUE,
      metrics |-> [cpu |-> [value |-> 1, percentage_change |-> 0]]],
     [is_changepoint |-> TRUE,
      metrics |-> [cpu |-> [value |-> 1, percentage_change |-> 5]]]}

ReportData == SeqUpTo(ReportRuns, MaxReportRuns)

Workloads == 1..MaxWorkloads

Init ==
    /\ pc = "report"
    /\ json_data_by_workload \in UNION {[W -> ReportData] : W \in SUBSET Workloads}
    /\ queue = <<>>
    /\ classification = <<>>
    /\ regression_count = 0
    /\ pass_count = 0
    /\ skip_count = 0
    /\ total = 0
    /\ returned = FALSE
    /\ ExtractIdle /\ LoadIdle /\ VizIdle /\ PrIdle /\ LabelIdle
    /\ components = {}

\* the header is printed, the counters are set to 0, the loop is entered
ReportBegin ==
    /\ pc = "report"
    /\ regression_count' = 0
    /\ pass_count' = 0
    /\ skip_count' = 0
    /\ queue' = Sorted(DOMAIN json_data_by_workload)
    /\ pc' = "loop"
    /\ UNCHANGED <<json_data_by_workload, classification, total, returned,
                   extractVars, loadVars, vizVars, prVars, labelVars, components>>

\* one iteration of the loop over the sorted workloads
ReportWorkload ==
    /\ pc = "loop"
    /\ queue # <<>>
    /\ LET workload == Head(queue)
           heading == Classify(json_data_by_workload[workload])
       IN  /\ classification' =
                 [w \in DOMAIN classification \cup {workload} |->
                     IF w = workload THEN heading ELSE classification[w]]
           /\ skip_count' = SkipCountAfter(skip_count, heading)
           /\ pass_count' = PassCountAfter(pass_count, heading)
           /\ regression_count' = RegressionCountAfter(regression_count, heading)
    /\ queue' = Tail(queue)
    /\ UNCHANGED <<pc, json_data_by_workload, total, returned,
                   extractVars, loadVars, vizVars, prVars, labelVars, components>>

\* the loop is over: the summary line is printed and the function returns
ReportSummary ==
    /\ pc = "loop"
    /\ queue = <<>>
    /\ total' = regression_count + pass_count + skip_count
    /\ returned' = ReturnValue(regression_count)
    /\ pc' = "done"
    /\ UNCHANGED <<json_data_by_workload, queue, classification, regression_count,
                   pass_count, skip_count,
                   extractVars, loadVars, vizVars, prVars, labelVars, components>>

Next == ReportBegin \/ ReportWorkload \/ ReportSummary

Spec == Init /\ [][Next]_vars

\* the workloads the loop has been through
Processed == DOMAIN classification

\* the class the claims give a Run sequence
ClaimedClass(d) ==
    CASE d = <<>> -> SKIP
      [] d # <<>> /\ (\A p \in 1..Len(d) : ~Qualifies(d[p])) -> PASS
      [] OTHER -> REGRESSION

\* C2: every workload gets exactly one of three classes: SKIP for an empty
\* Run sequence, PASS for a non-empty one without Changepoints, REGRESSION
\* DETECTED otherwise; an empty sequence counts in skip_count only.
C2_ThreeWayClassification ==
    /\ \A w \in Processed :
          classification[w] = ClaimedClass(json_data_by_workload[w])
    /\ skip_count =
          Cardinality({w \in Processed : json_data_by_workload[w] = <<>>})
    /\ pass_count + regression_count =
          Cardinality({w \in Processed : json_data_by_workload[w] # <<>>})

\* an empty workload, a workload without changepoints and a regressed one
\* have all been classified
C2_Witness ==
    /\ pc = "done"
    /\ \E a, b, c \in Processed :
          /\ json_data_by_workload[a] = <<>>
          /\ classification[a] = SKIP
          /\ json_data_by_workload[b] # <<>>
          /\ classification[b] = PASS
          /\ classification[c] = REGRESSION
    /\ skip_count = 1 /\ pass_count = 1 /\ regression_count = 1

\* C3: generate_report returns true exactly when some workload was
\* classified REGRESSION DETECTED; with no workloads, or only SKIP and PASS
\* ones, it has gone through every workload and returns false.
C3_ReturnsTrueIffRegression ==
    pc = "done" =>
        /\ Processed = DOMAIN json_data_by_workload
        /\ returned <=> (\E w \in Processed : classification[w] = REGRESSION)

\* a report of SKIP and PASS workloads only has returned false
C3_Witness ==
    /\ pc = "done"
    /\ \E a, b \in Processed : classification[a] = SKIP /\ classification[b] = PASS
    /\ \A w \in Processed : classification[w] # REGRESSION
    /\ returned = FALSE

\* the counters add up to the workloads processed so far, and to the
\* reported total and the number of workloads at the end
CountersAddUp ==
    /\ pc \in {"loop", "done"} =>
          regression_count + pass_count + skip_count = Cardinality(Processed)
    /\ pc = "done" =>
          /\ total = regression_count + pass_count + skip_count
          /\ total = Cardinality(DOMAIN json_data_by_workload)

\* a loop iteration adds one to exactly one counter
OneCounterPerIteration ==
    (pc = "loop" /\ pc' = "loop") =>
        \/ /\ regression_count' = regression_count + 1
           /\ pass_count' = pass_count /\ skip_count' = skip_count
        \/ /\ pass_count' = pass_count + 1
           /\ regression_count' = regression_count /\ skip_count' = skip_count
        \/ /\ skip_count' = skip_count + 1
           /\ regression_count' = regression_count /\ pass_count' = pass_count

\* C4: each processed workload has incremented exactly one of the three
\* counters by one, so after every iteration they add up to the number of
\* workloads processed, and at the end the reported total is their sum and
\* the number of workloads supplied.
C4_CountersPartitionWorkloads ==
    []CountersAddUp /\ [][OneCounterPerIteration]_vars

\* a report over three workloads, one of each class, has printed total 3
C4_Witness ==
    /\ pc = "done"
    /\ total = 3
    /\ regression_count = 1 /\ pass_count = 1 /\ skip_count = 1

---------------------------------------------------------------------------
(* orion/visualization.py: _build_test_figure, changepoint markers and the *)
(* summary tokens of the title                                             *)

RED == "#ff4444"

GREEN == "#39ff14"

Sign(x) == IF x > 0 THEN 1 ELSE IF x < 0 THEN -1 ELSE 0

Abs(x) == IF x < 0 THEN -x ELSE x

\* pct_change, the exact fraction num / den with den > 0:
\* 0 if mean_1 == 0 else (mean_2 - mean_1) / mean_1 * 100
PctChange(cp) ==
    IF cp.mean_1 = 0
    THEN [num |-> 0, den |-> 1]
    ELSE [num |-> (cp.mean_2 - cp.mean_1) * 100 * Sign(cp.mean_1),
          den |-> Abs(cp.mean_1)]

\* pct * direction > 0, for the fraction pct
ProductPositive(pct, direction) == pct.num * direction > 0

\* a mutant of PanelIsRegression: "or direction == 0" is missing
PanelIsRegressionSigned(pct, direction) == ProductPositive(pct, direction)

\* a mutant of PanelIsRegression: the comparison is the other way round
PanelIsRegressionFlipped(pct, direction) ==
    (pct.num * direction < 0) \/ direction = 0

\* is_regression of a panel marker
PanelIsRegression(pct, direction) ==
    ProductPositive(pct, direction) \/ direction = 0

\* is_regression of a title token
TitleIsRegression(pct, direction) ==
    ProductPositive(pct, direction) \/ direction = 0

Color(is_regression) == IF is_regression THEN RED ELSE GREEN

\* direction of a panel: metric_config.get("direction", 0)
PanelDirection(metric_name) == Get(metrics_config[metric_name], "direction", 0)

\* direction of a title token:
\* metrics_config.get(metric_name, {}).get("direction", 0)
TitleDirection(metric_name) ==
    Get(Get(metrics_config, metric_name, <<>>), "direction", 0)

\* the marker, boundary line and annotation drawn for one changepoint
PanelMarker(metric_name, cp) ==
    LET pct_change == PctChange(cp)
    IN  [x      |-> cp.index,
         pct    |-> pct_change,
         mean_1 |-> cp.mean_1,
         mean_2 |-> cp.mean_2,
         color  |-> Color(PanelIsRegression(pct_change, PanelDirection(metric_name)))]

\* the loop over the changepoints of one panel, from the k-th on
RECURSIVE PanelLoop(_, _, _, _)
PanelLoop(metric_name, cps, k, acc) ==
    IF k > Len(cps)
    THEN acc
    ELSE PanelLoop(metric_name, cps, k + 1,
                   IF cps[k].index >= VizRuns
                   THEN acc
                   ELSE Append(acc, PanelMarker(metric_name, cps[k])))

PanelMarkers(metric_name) ==
    PanelLoop(metric_name, Get(change_points_by_metric, metric_name, <<>>), 1, <<>>)

\* the summary token of one changepoint
TitleToken(metric_name, cp) ==
    LET pct == PctChange(cp)
    IN  [metric |-> metric_name,
         pct    |-> pct,
         color  |-> Color(TitleIsRegression(pct, TitleDirection(metric_name)))]

\* cp_parts, kept per metric
TitleTokens(metric_name) ==
    [k \in 1..Len(change_points_by_metric[metric_name]) |->
        TitleToken(metric_name, change_points_by_metric[metric_name][k])]

\* the VizData the figure is checked on
DirectionOptions ==
    {<<>>, [direction |-> -1], [direction |-> 0], [direction |-> 1]}

MetricsConfigs ==
    {Merge(c, l) :
        c \in {<<>>} \cup {[cpu |-> d] : d \in DirectionOptions},
        l \in {<<>>, [lat |-> <<>>]}}

MeanChoices == {<<100, 105>>, <<100, 95>>, <<100, 100>>, <<0, 5>>}

IndexChoices == {-1, 0, VizRuns}

ChangePointChoices ==
    {[index |-> i, mean_1 |-> m[1], mean_2 |-> m[2]] :
        i \in IndexChoices, m \in MeanChoices}

ChangePointMaps ==
    UNION {[N -> SeqUpTo(ChangePointChoices, MaxCps)] : N \in SUBSET MetricNames}

InitViz ==
    /\ pc = "figure"
    /\ metrics_config \in MetricsConfigs
    /\ change_points_by_metric \in ChangePointMaps
    /\ panel_markers = <<>>
    /\ title_tokens = <<>>
    /\ ExtractIdle /\ LoadIdle /\ ReportIdle /\ PrIdle /\ LabelIdle
    /\ components = {}

\* n_metrics == 0: the placeholder figure is returned
BuildPlaceholder ==
    /\ pc = "figure"
    /\ DOMAIN metrics_config = {}
    /\ pc' = "done"
    /\ UNCHANGED <<vizVars, extractVars, loadVars, reportVars, prVars, labelVars, components>>

\* one panel per configured metric, then the title
BuildTestFigure ==
    /\ pc = "figure"
    /\ DOMAIN metrics_config # {}
    /\ panel_markers' = [m \in DOMAIN metrics_config |-> PanelMarkers(m)]
    /\ title_tokens' = [m \in DOMAIN change_points_by_metric |-> TitleTokens(m)]
    /\ pc' = "done"
    /\ UNCHANGED <<metrics_config, change_points_by_metric,
                   extractVars, loadVars, reportVars, prVars, labelVars, components>>

NextViz == BuildPlaceholder \/ BuildTestFigure

SpecViz == InitViz /\ [][NextViz]_vars

\* the sign of the percentage change between two means, 0 when mean_1 is 0
ChangeSign(mean_1, mean_2) ==
    CASE mean_1 = 0 -> 0
      [] mean_1 # 0 /\ mean_2 = mean_1 -> 0
      [] mean_1 # 0 /\ mean_2 # mean_1 /\ ((mean_2 > mean_1) <=> (mean_1 > 0)) -> 1
      [] OTHER -> -1

\* the direction configured for a metric, 0 when none is
ConfiguredDirection(m) ==
    IF m \in DOMAIN metrics_config /\ "direction" \in DOMAIN metrics_config[m]
    THEN metrics_config[m].direction
    ELSE 0

\* the rule of the claims
AdverseByRule(sign, direction) == (sign * direction > 0) \/ direction = 0

\* the markers and tokens drawn, each with the sign of its change and the
\* direction of its metric
DrawnMarkers ==
    UNION {{[place     |-> "panel",
             color     |-> panel_markers[m][k].color,
             sign      |-> ChangeSign(panel_markers[m][k].mean_1,
                                      panel_markers[m][k].mean_2),
             direction |-> ConfiguredDirection(m)] :
               k \in DOMAIN panel_markers[m]} : m \in DOMAIN panel_markers}

DrawnTokens ==
    UNION {{[place     |-> "title",
             color     |-> title_tokens[m][k].color,
             sign      |-> ChangeSign(change_points_by_metric[m][k].mean_1,
                                      change_points_by_metric[m][k].mean_2),
             direction |-> ConfiguredDirection(m)] :
               k \in DOMAIN title_tokens[m]} : m \in DOMAIN title_tokens}

Drawn == DrawnMarkers \cup DrawnTokens

\* C6: panel markers and title tokens are coloured adverse exactly when
\* percentage_change * direction > 0 or direction == 0, a missing direction
\* being 0.
C6_AdverseIffProductPositiveOrZeroDirection ==
    pc = "done" =>
        \A d \in Drawn :
            /\ d.color \in {RED, GREEN}
            /\ (d.color = RED) <=> AdverseByRule(d.sign, d.direction)

\* a +5% change under direction -1 is drawn benign in a panel, and the
\* token of a metric without a configured direction is drawn adverse
C6_Witness ==
    /\ pc = "done"
    /\ \E d \in DrawnMarkers : d.direction = -1 /\ d.sign = 1 /\ d.color = GREEN
    /\ \E m \in DOMAIN title_tokens :
          /\ m \notin DOMAIN metrics_config
          /\ \E k \in DOMAIN title_tokens[m] : title_tokens[m][k].color = RED

\* C7 as claimed: direction -1 means "increase is bad" (a positive change is
\* adverse, a negative one benign) and direction +1 means "decrease is bad"
\* (a negative change is adverse, a positive one benign).
C7_AsClaimed ==
    pc = "done" =>
        \A d \in DrawnMarkers :
            /\ (d.direction = -1 /\ d.sign > 0) => d.color = RED
            /\ (d.direction = -1 /\ d.sign < 0) => d.color = GREEN
            /\ (d.direction = 1 /\ d.sign < 0) => d.color = RED
            /\ (d.direction = 1 /\ d.sign > 0) => d.color = GREEN

\* C7 as amended: direction -1 means "decrease is bad" (a negative change
\* is adverse, a positive one benign) and direction +1 means "increase is
\* bad" (a positive change is adverse, a negative one benign).
C7_DirectionMeaning ==
    pc = "done" =>
        \A d \in DrawnMarkers :
            /\ (d.direction = -1 /\ d.sign < 0) => d.color = RED
            /\ (d.direction = -1 /\ d.sign > 0) => d.color = GREEN
            /\ (d.direction = 1 /\ d.sign > 0) => d.color = RED
            /\ (d.direction = 1 /\ d.sign < 0) => d.color = GREEN

\* a panel of a metric with direction +1 shows an increase as adverse
C7_Witness ==
    /\ pc = "done"
    /\ \E d \in DrawnMarkers : d.direction = 1 /\ d.sign = 1 /\ d.color = RED

---------------------------------------------------------------------------
(* Python string methods *)

\* the characters str.strip() removes
WhiteSpace == {" ", "\t", "\n", "\r"}

\* s.rstrip(chars)
RECURSIVE RStrip(_, _)
RStrip(s, chars) ==
    IF s # "" /\ Char(s, Len(s)) \in chars
    THEN RStrip(SubSeq(s, 1, Len(s) - 1), chars)
    ELSE s

\* s.lstrip(chars)
RECURSIVE LStrip(_, _)
LStrip(s, chars) ==
    IF s # "" /\ Char(s, 1) \in chars
    THEN LStrip(SubSeq(s, 2, Len(s)), chars)
    ELSE s

\* s.strip()
Strip(s) == LStrip(RStrip(s, WhiteSpace), WhiteSpace)

\* s.split(sep) for a one-character sep
RECURSIVE Split(_, _)
Split(s, sep) ==
    LET hits == {i \in 1..Len(s) : Char(s, i) = sep}
    IN  IF hits = {}
        THEN <<s>>
        ELSE LET first == CHOOSE i \in hits : \A j \in hits : i <= j
             IN  <<SubSeq(s, 1, first - 1)>> \o Split(SubSeq(s, first + 1, Len(s)), sep)

\* s.replace(c, "") for a one-character c
RECURSIVE RemoveChar(_, _)
RemoveChar(s, c) ==
    IF s = ""
    THEN ""
    ELSE (IF Char(s, 1) = c THEN "" ELSE Char(s, 1))
            \o RemoveChar(SubSeq(s, 2, Len(s)), c)

UpperCase == "ABCDEFGHIJKLMNOPQRSTUVWXYZ"

LowerCase == "abcdefghijklmnopqrstuvwxyz"

LowerChar(c) ==
    IF \E i \in 1..Len(UpperCase) : Char(UpperCase, i) = c
    THEN Char(LowerCase, CHOOSE i \in 1..Len(UpperCase) : Char(UpperCase, i) = c)
    ELSE c

\* s.lower()
RECURSIVE Lower(_)
Lower(s) ==
    IF s = "" THEN "" ELSE LowerChar(Char(s, 1)) \o Lower(SubSeq(s, 2, Len(s)))

\* "sub in s"
Contains(sub, s) ==
    \E i \in 1..(Len(s) - Len(sub) + 1) : SubSeq(s, i, i + Len(sub) - 1) = sub

---------------------------------------------------------------------------
(* orion/report.py: _sort_prs_by_relevance *)

\* parts and repo_name of one reference URL
RepoName(pr_url) ==
    LET parts == Split(RStrip(pr_url, {"/"}), "/")
    IN  IF Len(parts) >= 4 THEN Lower(parts[Len(parts) - 2]) ELSE ""

\* any(comp in repo_name or repo_name in comp for comp in components)
IsMatching(pr_url, comps) ==
    LET repo_name == RepoName(pr_url)
    IN  \E comp \in comps : Contains(comp, repo_name) \/ Contains(repo_name, comp)

\* matching after one iteration
MatchingAfter(list, pr_url, hit) == IF hit THEN Append(list, pr_url) ELSE list

\* a mutant of OthersAfter: the URL is put at the front
OthersPrepended(list, pr_url, hit) == IF hit THEN list ELSE <<pr_url>> \o list

\* others after one iteration
OthersAfter(list, pr_url, hit) == IF hit THEN list ELSE Append(list, pr_url)

\* the for loop from the k-th URL on; acc is <<matching, others>>
RECURSIVE SortLoop(_, _, _, _)
SortLoop(urls, comps, k, acc) ==
    IF k > Len(urls)
    THEN acc
    ELSE LET hit == IsMatching(urls[k], comps)
         IN  SortLoop(urls, comps, k + 1,
                      <<MatchingAfter(acc[1], urls[k], hit),
                        OthersAfter(acc[2], urls[k], hit)>>)

sort_prs_by_relevance(urls, comps) == SortLoop(urls, comps, 1, <<<<>>, <<>>>>)

\* the reference URLs and component sets the correlator is checked on
SegmentChoices == {"", "Ovn", "pull"}

RECURSIVE Join(_)
Join(segs) ==
    IF segs = <<>>
    THEN ""
    ELSE IF Len(segs) = 1 THEN segs[1] ELSE segs[1] \o "/" \o Join(Tail(segs))

UrlsBySegments == {Join(segs) : segs \in SeqUpTo(SegmentChoices, MaxSegs)}

ListUrls ==
    {"https://github.com/org/ovn-kubernetes/pull/42",
     "https://github.com/org/etcd/pull/7/",
     "ovn/pull/42",
     ""}

ComponentSets == SUBSET {"ov", "ovn-kubernetes", "networking"}

InitPR ==
    /\ pc = "sort_prs"
    /\ prs \in {<<u>> : u \in UrlsBySegments} \cup SeqUpTo(ListUrls, MaxPrs)
    /\ components \in ComponentSets
    /\ matching = <<>>
    /\ others = <<>>
    /\ ExtractIdle /\ LoadIdle /\ ReportIdle /\ VizIdle /\ LabelIdle

SortPrsByRelevance ==
    /\ pc = "sort_prs"
    /\ LET result == sort_prs_by_relevance(prs, components)
       IN  matching' = result[1] /\ others' = result[2]
    /\ pc' = "done"
    /\ UNCHANGED <<prs, components, extractVars, loadVars, reportVars, vizVars, labelVars>>

NextPR == SortPrsByRelevance

SpecPR == InitPR /\ [][NextPR]_vars

Range(s) == {s[k] : k \in DOMAIN s}

\* the number of '/'-separated segments of a URL without its trailing '/'
RECURSIVE TrailingSlashes(_)
TrailingSlashes(u) ==
    IF u # "" /\ Char(u, Len(u)) = "/"
    THEN 1 + TrailingSlashes(SubSeq(u, 1, Len(u) - 1))
    ELSE 0

SegmentCount(u) ==
    1 + Cardinality({i \in 1..(Len(u) - TrailingSlashes(u)) : Char(u, i) = "/"})

\* C8 as claimed: a reference URL with fewer than 4 segments is always put
\* in "other" and never in "related", whatever the component tokens.
C8_ShortUrlAlwaysOther ==
    pc = "done" =>
        \A k \in DOMAIN prs :
            SegmentCount(prs[k]) < 4 =>
                prs[k] \in Range(others) /\ prs[k] \notin Range(matching)

\* the elements of s at the positions in S, in increasing order
Pick(s, S) ==
    [k \in 1..Cardinality(S) |->
        s[CHOOSE p \in S : Cardinality({q \in S : q <= p}) = k]]

\* C10: the two output lists partition the input occurrences: nothing is
\* added or dropped, and each list keeps the input order.
C10_PartitionKeepsOrder ==
    pc = "done" =>
        /\ Len(matching) + Len(others) = Len(prs)
        /\ \E M \in SUBSET DOMAIN prs :
              /\ matching = Pick(prs, M)
              /\ others = Pick(prs, (DOMAIN prs) \ M)

\* three URLs went two to "related", in their input order, and one to "other"
C10_Witness ==
    /\ pc = "done"
    /\ Len(prs) = 3
    /\ Len(matching) = 2
    /\ matching[1] # matching[2]
    /\ Len(others) = 1
    /\ prs[1] = others[1]

---------------------------------------------------------------------------
(* orion/report.py: _extract_components *)

\* the tokens one labels string adds to components
LabelTokens(label) ==
    LET parts == Split(RemoveChar(RemoveChar(label, "["), "]"), "/")
    IN  {Lower(Strip(parts[k])) : k \in DOMAIN parts} \ {"", "jira:"}

extract_components(metrics) ==
    UNION {LabelTokens(Get(metrics[m], "labels", "")) : m \in DOMAIN metrics}

\* the regressed metrics the label extractor is checked on
LabelChoices ==
    {"[Jira: Networking / ovn-kubernetes]",
     "[Jira: / Etcd ]",
     "Jira:/kube-apiserver",
     "[PerfScale]",
     ""}

LabelledSamples ==
    {[value |-> 1, percentage_change |-> 5]} \cup
    {[value |-> 1, percentage_change |-> 5, labels |-> l] : l \in LabelChoices}

LabelledMetricNames == {"metric" \o ToString(i) : i \in 1..MaxLabelled}

InitLabels ==
    /\ pc = "extract_components"
    /\ regressed_metrics \in
          UNION {[N -> LabelledSamples] : N \in SUBSET LabelledMetricNames}
    /\ components = {}
    /\ ExtractIdle /\ LoadIdle /\ ReportIdle /\ VizIdle /\ PrIdle

ExtractComponents ==
    /\ pc = "extract_components"
    /\ components' = extract_components(regressed_metrics)
    /\ pc' = "done"
    /\ UNCHANGED <<regressed_metrics, extractVars, loadVars, reportVars, vizVars, prVars>>

NextLabels == ExtractComponents

SpecLabels == InitLabels /\ [][NextLabels]_vars

\* C9 as claimed: for a single regressed metric labelled
\* "[Jira: Networking / ovn-kubernetes]" the extracted tokens are exactly
\* "networking" and "ovn-kubernetes".
C9_JiraLabelTokens ==
    (/\ pc = "done"
     /\ Cardinality(DOMAIN regressed_metrics) = 1
     /\ \A m \in DOMAIN regressed_metrics :
           Get(regressed_metrics[m], "labels", "") =
               "[Jira: Networking / ovn-kubernetes]")
        => components = {"networking", "ovn-kubernetes"}

---------------------------------------------------------------------------
(* orion/report.py: load_json_files and _derive_workload_name *)

StartsWith(s, prefix) ==
    Len(s) >= Len(prefix) /\ SubSeq(s, 1, Len(prefix)) = prefix

EndsWith(s, suffix) ==
    Len(s) >= Len(suffix) /\ SubSeq(s, Len(s) - Len(suffix) + 1, Len(s)) = suffix

\* os.path.basename(path)
Basename(path) ==
    LET parts == Split(path, "/") IN parts[Len(parts)]

\* os.path.splitext(name)[0]: the extension starts at the last dot, unless
\* only dots come before it
SplitextRoot(name) ==
    LET dots == {i \in 1..Len(name) :
                    /\ Char(name, i) = "."
                    /\ \E j \in 1..(i - 1) : Char(name, j) # "."}
    IN  IF dots = {}
        THEN name
        ELSE SubSeq(name, 1, (CHOOSE i \in dots : \A j \in dots : j <= i) - 1)

\* "if name.startswith(prefix): name = name[len(prefix):]"
WithoutPrefix(name, prefix) ==
    IF StartsWith(name, prefix)
    THEN SubSeq(name, Len(prefix) + 1, Len(name))
    ELSE name

derive_workload_name(file_path) ==
    LET name == WithoutPrefix(
                    WithoutPrefix(
                        WithoutPrefix(SplitextRoot(Basename(file_path)), "orion-"),
                        "junit_"),
                    "output_")
    IN  IF EndsWith(name, "-junit")
        THEN SubSeq(name, 1, Len(name) - Len("-junit"))
        ELSE name

\* os.path.exists(path)
Exists(file) == file.exists

\* json.load(f): raises JSONDecodeError on text that is not JSON, else
\* returns the parsed value
JsonLoad(file) ==
    IF file.content.valid
    THEN [raised |-> FALSE, parsed |-> file.content.value]
    ELSE [raised |-> TRUE]

\* isinstance(parsed, list)
IsList(parsed) == parsed.type = "array"

\* data after the loop body has run for path
LoadedAfter(d, path, file) ==
    IF ~Exists(file)
    THEN d
    ELSE LET workload == derive_workload_name(path)
             result == JsonLoad(file)
         IN  IF ~result.raised /\ IsList(result.parsed)
             THEN [w \in DOMAIN d \cup {workload} |->
                     IF w = workload THEN result.parsed.items ELSE d[w]]
             ELSE d

\* a mutant of NextPathAfter: a missing file ends the loop
NextPathStopsAtMissing(i, n, file) == IF Exists(file) THEN i + 1 ELSE n + 1

\* the position of the loop after the body has run for the path at i: no
\* branch of the body leaves the loop
NextPathAfter(i, n, file) == i + 1

\* the paths, files and path lists the loader is checked on
PathChoices ==
    {"out/orion-node.json", "junit_node-junit.json", "output_etcd.json", "etcd"}

JsonValues ==
    {[type |-> "object"],
     [type |-> "array", items |-> <<>>],
     [type |-> "array",
      items |-> <<[is_changepoint |-> TRUE,
                   metrics |-> [cpu |-> [value |-> 1, percentage_change |-> 5]]]>>]}

FileChoices ==
    {[exists |-> FALSE], [exists |-> TRUE, content |-> [valid |-> FALSE]]} \cup
    {[exists |-> TRUE, content |-> [valid |-> TRUE, value |-> v]] : v \in JsonValues}

InitLoad ==
    /\ pc = "load"
    /\ file_paths \in SeqUpTo(PathChoices, MaxPaths)
    /\ files \in [{file_paths[k] : k \in DOMAIN file_paths} -> FileChoices]
    /\ loaded = <<>>
    /\ next_path = 1
    /\ ExtractIdle /\ ReportIdle /\ VizIdle /\ PrIdle /\ LabelIdle
    /\ components = {}

\* one iteration of "for path in file_paths"
LoadPath ==
    /\ pc = "load"
    /\ next_path <= Len(file_paths)
    /\ LET path == file_paths[next_path]
       IN  /\ loaded' = LoadedAfter(loaded, path, files[path])
           /\ next_path' = NextPathAfter(next_path, Len(file_paths), files[path])
    /\ UNCHANGED <<pc, file_paths, files, extractVars, reportVars, vizVars,
                   prVars, labelVars, components>>

\* "return data"
LoadReturn ==
    /\ pc = "load"
    /\ next_path > Len(file_paths)
    /\ pc' = "done"
    /\ UNCHANGED <<loadVars, extractVars, reportVars, vizVars, prVars,
                   labelVars, components>>

NextLoad == LoadPath \/ LoadReturn

SpecLoad == InitLoad /\ [][NextLoad]_vars

\* a path whose file exists and holds a JSON array
GoodPath(path) ==
    /\ files[path].exists
    /\ files[path].content.valid
    /\ files[path].content.value.type = "array"

\* the positions of file_paths the loop has been through
LoadedPrefix == 1..(next_path - 1)

---------------------------------------------------------------------------
(* extract_changepoints: the regressed_metrics of a Changepoint *)

\* the metrics of a Run whose percentage_change is present and not 0
ChangedMetrics(run) ==
    {n \in DOMAIN run.metrics :
        /\ "percentage_change" \in DOMAIN run.metrics[n]
        /\ run.metrics[n].percentage_change # 0}

\* C12: regressed_metrics of every emitted Changepoint holds exactly the
\* metrics of its Run with a non-zero percentage_change, whatever the sign,
\* each with its MetricSample unchanged.
C12_RegressedMetricsAreTheNonZeroOnes ==
    pc = "done" =>
        \A k \in 1..Len(changepoints) :
            LET run == data[KthQualifying(k)]
                regressed == changepoints[k].regressed_metrics
            IN  /\ DOMAIN regressed = ChangedMetrics(run)
                /\ \A n \in DOMAIN regressed : regressed[n] = run.metrics[n]

\* a Changepoint keeps a decrease, and the one after it keeps the changed
\* metric of its Run and leaves out the unchanged one
C12_Witness ==
    /\ pc = "done"
    /\ Len(changepoints) = 2
    /\ changepoints[1].regressed_metrics =
          [cpu |-> [value |-> 1, percentage_change |-> -5]]
    /\ data[2].metrics =
          [cpu |-> [value |-> 1, percentage_change |-> 0],
           lat |-> [value |-> 1, percentage_change |-> 5]]
    /\ DOMAIN changepoints[2].regressed_metrics = {"lat"}

---------------------------------------------------------------------------
(* _build_test_figure: which changepoints get a marker *)

\* the changepoints of a metric whose index is a position of the Run
\* sequence
InRangePositions(m) ==
    LET cps == Get(change_points_by_metric, m, <<>>)
    IN  {k \in DOMAIN cps : 0 <= cps[k].index /\ cps[k].index < VizRuns}

\* C13 as claimed: a panel shows a marker (with its boundary line and
\* annotation) for a changepoint exactly when 0 <= index < number of runs;
\* an index that is too large or negative draws nothing.
C13_MarkerIffIndexInRange ==
    pc = "done" =>
        \A m \in DOMAIN panel_markers :
            /\ Len(panel_markers[m]) = Cardinality(InRangePositions(m))
            /\ \A k \in DOMAIN panel_markers[m] :
                  0 <= panel_markers[m][k].x /\ panel_markers[m][k].x < VizRuns

=============================================================================
